---- MODULE Spec2Model ----
(***************************************************************************)
(* The Leaflet map viewer of js/main.js as a state machine.                *)
(*                                                                         *)
(* A state is what the page holds between two event-loop tasks: the two    *)
(* fetch chains, the global layer references, the layers attached to the   *)
(* map, the controls, the geolocation marker and circle, the notices shown *)
(* and the console.  One action is one handler.  Promise reactions are     *)
(* microtasks: while one is pending no network completion and no user      *)
(* event is delivered (MicrotaskPending).                                  *)
(***************************************************************************)
EXTENDS Integers, Sequences, FiniteSets, TLC

VARIABLES
    load,               \* the promise chains of fetchKindergartens() and fetchCity()
    kindergartenLayer,  \* var kindergartenLayer
    cityLayer,          \* var cityLayer
    joinState,          \* the promise of Promise.all([...]).then(...)
    layers,             \* the layers attached to the map
    layerControl,       \* the L.control.layers built by the join
    legend,             \* the rows of the legend built by the join
    builds,             \* how many times the join callback has built the controls
    locationMarker,     \* var locationMarker
    locationCircle,     \* var locationCircle
    locates,            \* map.locate() calls made so far
    pendingLocate,      \* geolocation requests that have not called back yet
    found,              \* locationfound events handled so far
    alerts,             \* the alert() notices shown, in order
    searches,           \* the outcome of every findNearestKindergarten() call
    popup,              \* the popup open on the map
    view,               \* the last viewport the map was moved to
    log,                \* console.log / console.error lines
    uncaught,           \* exceptions and rejections nothing handled
    scan,               \* the eachLayer loop of findNearestKindergarten, run alone
    feature,            \* the feature handed to onEachFeature, run alone
    popupContent        \* the popup onEachFeature bound to it

vars == <<load, kindergartenLayer, cityLayer, joinState, layers, layerControl,
          legend, builds, locationMarker, locationCircle, locates, pendingLocate,
          found, alerts, searches, popup, view, log, uncaught, scan, feature,
          popupContent>>

----------------------------------------------------------------------------
(* Bounds of the model. *)

MaxLocate == 2

MaxNearest == 2

MaxProps == 3

MaxScan == 3

MaxCoord == 3

----------------------------------------------------------------------------
(* JavaScript values. *)

Undefined == [t |-> "undefined"]

Null == [t |-> "null"]

Str(s) == [t |-> "string", s |-> s]

Num(n) == [t |-> "number", n |-> n]

\* if (x): undefined and null are falsy, an object is truthy
Truthy(x) == x # Undefined /\ x # Null

Infinity == 1000000

\* userLatLng.distanceTo(latlng): positions are points of a line, 100 m apart
Distance(a, b) == IF a >= b THEN (a - b) * 100 ELSE (b - a) * 100

----------------------------------------------------------------------------
(* onEachFeature of the kindergarten layer: the popup of one feature. *)

allowedKeys ==
    <<"name", "phone", "email", "addr:housenumber",
      "addr:street", "operator:type", "opening_hours", "website">>

\* props[key]: a key the object does not hold reads as undefined
Prop(props, key) == IF key \in DOMAIN props THEN props[key] ELSE Undefined

RowQualifiesNoEmptyCheck(value) == value # Null /\ value # Undefined

\* value !== null && value !== undefined && value !== ""
RowQualifies(value) == value # Null /\ value # Undefined /\ value # Str("")

\* `<tr><td><strong>${key}</strong></td><td>${value}</td></tr>`
Row(key, value) == [key |-> key, value |-> value]

\* "<b>Kindergarten Info</b><br><table>" + rows + "</table>"
Table(rows) ==
    [head |-> "<b>Kindergarten Info</b><br><table>", rows |-> rows, tail |-> "</table>"]

NoData == [html |-> "<i>No available data</i>"]

\* for (let key of allowedKeys) { ... }, from the i-th key on
RECURSIVE AppendRows(_, _, _)
AppendRows(acc, props, i) ==
    IF i > Len(allowedKeys) THEN acc
    ELSE LET key == allowedKeys[i]
             value == Prop(props, key)
         IN  AppendRows(IF RowQualifies(value)
                        THEN [rows |-> Append(acc.rows, Row(key, value)),
                              hasValidData |-> TRUE]
                        ELSE acc,
                        props, i + 1)

\* The body of onEachFeature.  feature.properties may be null in GeoJSON, and
\* props[key] on null throws a TypeError.
onEachFeature(f) ==
    IF ~Truthy(f.properties) THEN [threw |-> TRUE, popup |-> Undefined]
    ELSE LET r == AppendRows([rows |-> <<>>, hasValidData |-> FALSE], f.properties, 1)
         IN  [threw |-> FALSE,
              popup |-> IF ~r.hasValidData THEN NoData ELSE Table(r.rows)]

----------------------------------------------------------------------------
(* The eachLayer loop of findNearestKindergarten. *)

ScanStepNonStrict(acc, layer, userLatLng) ==
    LET distance == Distance(userLatLng, layer.latlng)
    IN  IF distance <= acc.minDistance
        THEN [minDistance |-> distance, nearest |-> layer]
        ELSE acc

\* const distance = ...; if (distance < minDistance) { minDistance = distance; nearest = layer; }
ScanStep(acc, layer, userLatLng) ==
    LET distance == Distance(userLatLng, layer.latlng)
    IN  IF distance < acc.minDistance
        THEN [minDistance |-> distance, nearest |-> layer]
        ELSE acc

\* let nearest = null; let minDistance = Infinity;
ScanStart == [minDistance |-> Infinity, nearest |-> Null]

\* kindergartenLayer.eachLayer(...): the markers in the order they were created
RECURSIVE eachLayer(_, _, _, _)
eachLayer(acc, markers, i, userLatLng) ==
    IF i > Len(markers) THEN acc
    ELSE eachLayer(ScanStep(acc, markers[i], userLatLng), markers, i + 1, userLatLng)

----------------------------------------------------------------------------
(* The two datasets and what L.geoJSON makes of them. *)

Loaders == {"kg", "city"}

Feature(latlng, properties) == [latlng |-> latlng, properties |-> properties]

PropsNamed ==
    ("name" :> Str("Sonnenschein")) @@ ("phone" :> Str("")) @@ ("amenity" :> Str("kindergarten"))

PropsBare == ("amenity" :> Str("kindergarten"))

\* The bodies data/kindergarden_last.geojson may parse to: no feature, two
\* features, and a feature whose "properties" member is null.
KgData ==
    { <<>>,
      <<Feature(0, PropsNamed), Feature(2, PropsBare)>>,
      <<Feature(2, PropsNamed), Feature(1, Null)>> }

\* The bodies data/City.geojson may parse to: one polygon, no feature, and a
\* polygon whose "properties" member is null.
CityData ==
    { <<Feature(1, ("NAME" :> Str("Salzburg")))>>,
      <<>>,
      <<Feature(1, Null)>> }

DataOf(X) == IF X = "kg" THEN KgData ELSE CityData

\* onEachCityFeature's popup: props[key] on null throws a TypeError
onEachCityFeature(f) ==
    IF ~Truthy(f.properties) THEN [threw |-> TRUE, popup |-> Undefined]
    ELSE LET v == Prop(f.properties, "NAME")
         IN  [threw |-> FALSE,
              popup |-> [head |-> "<b>City Info</b><br><table>",
                         rows |-> IF Truthy(v) /\ v # Str("") /\ v # Num(0)
                                  THEN <<Row("NAME", v)>> ELSE <<>>,
                         tail |-> "</table>"]]

\* L.geoJSON(data, options) adds the features in order and calls onEachFeature
\* on each; an exception there leaves the constructor, with the members added
\* so far in the half-built layer.
RECURSIVE addData(_, _, _, _)
addData(X, members, data, i) ==
    IF i > Len(data) THEN [threw |-> FALSE, members |-> members]
    ELSE LET r == IF X = "kg" THEN onEachFeature(data[i]) ELSE onEachCityFeature(data[i])
         IN  IF r.threw THEN [threw |-> TRUE, members |-> members]
             ELSE addData(X,
                          Append(members,
                                 [stamp |-> i, latlng |-> data[i].latlng, popup |-> r.popup]),
                          data, i + 1)

OverlayName(X) == IF X = "kg" THEN "Kindergartens" ELSE "City Boundary"

geoJSON(X, data) ==
    LET r == addData(X, <<>>, data, 1)
    IN  [threw |-> r.threw, layer |-> [name |-> OverlayName(X), members |-> r.members]]

AssignedBeforeThrow(old, built) == built.layer

\* kindergartenLayer = L.geoJSON(...): the global is assigned only when the
\* constructor returns
Assigned(old, built) == IF built.threw THEN old ELSE built.layer

----------------------------------------------------------------------------
(* The map. *)

osmap == [kind |-> "tile", name |-> "OpenStreetMap"]

positron == [kind |-> "tile", name |-> "CartoDB Positron"]

Overlay(X) == [kind |-> "geojson", name |-> OverlayName(X)]

OfKind(k) == {l \in layers : l.kind = k}

\* Promise reactions that are queued: they run before any other event
Settled(X) == load[X].pc \in {"fulfilled", "failed"}

JoinRace == \E X \in Loaders : Settled(X)

\* Promise.all: rejected as soon as one input is, fulfilled when all are
JoinReady ==
    \/ \E X \in Loaders : load[X].pc = "failed"
    \/ \A X \in Loaders : load[X].pc = "fulfilled"

MicrotaskPending ==
    \/ \E X \in Loaders : load[X].pc \in {"response", "data", "rejected"}
    \/ joinState = "pending" /\ JoinReady

Idle == [pc |-> "fetch", ok |-> TRUE, data |-> <<>>, error |-> "none", value |-> Undefined]

userVars == <<locationMarker, locationCircle, locates, pendingLocate, found, alerts, searches>>

mapVars == <<layers, layerControl, legend, builds, popup, view>>

aloneVars == <<scan, feature, popupContent>>

----------------------------------------------------------------------------
(* fetchKindergartens() and fetchCity(): fetch(...).then(...).then(...).catch(...) *)

ErrorLine(X, error) ==
    [text |-> IF X = "kg" THEN "Error loading kindergarden_last.geojson:"
              ELSE "Error loading City.geojson:",
     error |-> error]

LoadedLine(X) ==
    [text |-> IF X = "kg" THEN "Kindergartens GeoJSON loaded successfully."
              ELSE "City GeoJSON loaded successfully.",
     error |-> "none"]

\* fetch() settles: the network failed, or a response arrived with some status
FetchSettles(X) ==
    /\ load[X].pc = "fetch"
    /\ ~MicrotaskPending
    /\ \E outcome \in {"network error", "200", "404"} :
         load' = [load EXCEPT ![X] =
                    IF outcome = "network error"
                    THEN [@ EXCEPT !.pc = "rejected", !.error = "network"]
                    ELSE [@ EXCEPT !.pc = "response", !.ok = (outcome = "200")]]
    /\ UNCHANGED <<kindergartenLayer, cityLayer, joinState, log, uncaught>>
    /\ UNCHANGED <<mapVars, userVars, aloneVars>>

\* .then(response => { if (!response.ok) throw new Error(...); return response.json(); })
CheckResponse(X) ==
    /\ load[X].pc = "response"
    /\ load' = [load EXCEPT ![X] =
                  IF ~load[X].ok
                  THEN [@ EXCEPT !.pc = "rejected", !.error = "status"]
                  ELSE [@ EXCEPT !.pc = "json"]]
    /\ UNCHANGED <<kindergartenLayer, cityLayer, joinState, log, uncaught>>
    /\ UNCHANGED <<mapVars, userVars, aloneVars>>

\* response.json() settles: the body is not JSON, or it parses to some data
JsonSettles(X) ==
    /\ load[X].pc = "json"
    /\ ~MicrotaskPending
    /\ \/ load' = [load EXCEPT ![X] = [@ EXCEPT !.pc = "rejected", !.error = "parse"]]
       \/ \E data \in DataOf(X) :
            load' = [load EXCEPT ![X] = [@ EXCEPT !.pc = "data", !.data = data]]
    /\ UNCHANGED <<kindergartenLayer, cityLayer, joinState, log, uncaught>>
    /\ UNCHANGED <<mapVars, userVars, aloneVars>>

\* .then(data => { kindergartenLayer = L.geoJSON(data, {...}); console.log(...);
\*                 return kindergartenLayer; })
BuildLayer(X) ==
    /\ load[X].pc = "data"
    /\ LET built == geoJSON(X, load[X].data)
       IN  /\ kindergartenLayer' =
                IF X = "kg" THEN Assigned(kindergartenLayer, built) ELSE kindergartenLayer
           /\ cityLayer' = IF X = "city" THEN Assigned(cityLayer, built) ELSE cityLayer
           /\ IF built.threw
              THEN /\ load' = [load EXCEPT ![X] =
                                 [@ EXCEPT !.pc = "rejected", !.error = "render", !.data = <<>>]]
                   /\ log' = log
              ELSE /\ load' = [load EXCEPT ![X] =
                                 [@ EXCEPT !.pc = "fulfilled", !.data = <<>>,
                                           !.value = built.layer]]
                   /\ log' = log \cup {LoadedLine(X)}
    /\ UNCHANGED <<joinState, uncaught>>
    /\ UNCHANGED <<mapVars, userVars, aloneVars>>

CatchRethrow(error) == [pc |-> "failed", value |-> Undefined]

\* .catch(error => { console.error(...); return null; })
Catch(error) == [pc |-> "fulfilled", value |-> Null]

CatchError(X) ==
    /\ load[X].pc = "rejected"
    /\ LET after == Catch(load[X].error)
       IN  load' = [load EXCEPT ![X] = [@ EXCEPT !.pc = after.pc, !.value = after.value]]
    /\ log' = log \cup {ErrorLine(X, load[X].error)}
    /\ UNCHANGED <<kindergartenLayer, cityLayer, joinState, uncaught>>
    /\ UNCHANGED <<mapVars, userVars, aloneVars>>

----------------------------------------------------------------------------
(* Promise.all([fetchKindergartens(), fetchCity()]).then(...) *)

BaseMaps == {osmap.name, positron.name}

\* var overlays = {}; if (loadedKindergartenLayer) ...; if (loadedCityLayer) ...
Overlays(loadedKindergartenLayer, loadedCityLayer) ==
    (IF Truthy(loadedKindergartenLayer) THEN {"kg"} ELSE {})
    \cup (IF Truthy(loadedCityLayer) THEN {"city"} ELSE {})

\* legend.onAdd
LegendRows(loadedKindergartenLayer, loadedCityLayer) ==
    <<"<h4>Legend</h4>">>
    \o (IF Truthy(loadedKindergartenLayer) THEN <<" Kindergarten<br>">> ELSE <<>>)
    \o (IF Truthy(loadedCityLayer) THEN <<" Salzburg City Boundary<br>">> ELSE <<>>)

\* loadedCityLayer.getBounds() is valid when the layer holds a geometry
BoundsValid(layer) == Len(layer.members) > 0

Join ==
    /\ joinState = "pending"
    /\ JoinReady
    /\ IF \E X \in Loaders : load[X].pc = "failed"
       THEN \* Promise.all rejects and no handler is attached to the chain
            /\ joinState' = "rejected"
            /\ uncaught' = uncaught \cup {"unhandledrejection"}
            /\ UNCHANGED <<mapVars, log>>
       ELSE LET loadedKindergartenLayer == load["kg"].value
                loadedCityLayer == load["city"].value
                overlays == Overlays(loadedKindergartenLayer, loadedCityLayer)
            IN  /\ joinState' = "fulfilled"
                /\ layers' = layers \cup {Overlay(X) : X \in overlays}
                /\ layerControl' = [baseMaps |-> BaseMaps,
                                    overlays |-> {OverlayName(X) : X \in overlays}]
                /\ legend' = [rows |-> LegendRows(loadedKindergartenLayer, loadedCityLayer)]
                /\ builds' = builds + 1
                /\ IF Truthy(loadedCityLayer)
                   THEN IF BoundsValid(loadedCityLayer)
                        THEN view' = <<"city", 0, 0>> /\ log' = log
                        ELSE /\ view' = view
                             /\ log' = log \cup {[text |-> "Error fitting bounds:",
                                                  error |-> "Bounds are not valid."]}
                   ELSE view' = view /\ log' = log
                /\ UNCHANGED <<popup, uncaught>>
    /\ UNCHANGED <<load, kindergartenLayer, cityLayer>>
    /\ UNCHANGED <<userVars, aloneVars>>

----------------------------------------------------------------------------
(* The layer control: one base layer by radio button, overlays by checkbox. *)

SelectBaseLayer(b) ==
    /\ ~MicrotaskPending
    /\ Truthy(layerControl)
    /\ b.name \in layerControl.baseMaps
    /\ b \notin layers
    /\ layers' = (layers \ {osmap, positron}) \cup {b}
    /\ UNCHANGED <<layerControl, legend, builds, popup, view>>
    /\ UNCHANGED <<load, kindergartenLayer, cityLayer, joinState, log, uncaught>>
    /\ UNCHANGED <<userVars, aloneVars>>

ToggleOverlay(X) ==
    /\ ~MicrotaskPending
    /\ Truthy(layerControl)
    /\ OverlayName(X) \in layerControl.overlays
    /\ layers' = IF Overlay(X) \in layers THEN layers \ {Overlay(X)}
                 ELSE layers \cup {Overlay(X)}
    /\ UNCHANGED <<layerControl, legend, builds, popup, view>>
    /\ UNCHANGED <<load, kindergartenLayer, cityLayer, joinState, log, uncaught>>
    /\ UNCHANGED <<userVars, aloneVars>>

----------------------------------------------------------------------------
(* Geolocation. *)

UserLatLngs == {1, 3}

Accuracies == {25}

\* div.onclick = function () { map.locate({ setView: true, maxZoom: 16 }); }
LocateClick ==
    /\ ~MicrotaskPending
    /\ locates < MaxLocate
    /\ locates' = locates + 1
    /\ pendingLocate' = pendingLocate + 1
    /\ UNCHANGED <<locationMarker, locationCircle, found, alerts, searches>>
    /\ UNCHANGED <<load, kindergartenLayer, cityLayer, joinState, log, uncaught>>
    /\ UNCHANGED <<mapVars, aloneVars>>

RemoveNothing(ls, marker, circle) == ls

RemoveEveryVector(ls, marker, circle) == {l \in ls : l.kind \in {"tile", "geojson"}}

\* if (locationMarker) map.removeLayer(locationMarker);
\* if (locationCircle) map.removeLayer(locationCircle);
RemovePrevious(ls, marker, circle) ==
    (ls \ (IF Truthy(marker) THEN {marker} ELSE {}))
        \ (IF Truthy(circle) THEN {circle} ELSE {})

\* map.on('locationfound', function (e) {...}), after the setView the locate options ask for
LocationFound ==
    /\ ~MicrotaskPending
    /\ pendingLocate > 0
    /\ \E latlng \in UserLatLngs, accuracy \in Accuracies :
         LET marker == [kind |-> "marker", stamp |-> found + 1, latlng |-> latlng]
             circle == [kind |-> "circle", stamp |-> found + 1, latlng |-> latlng,
                        radius |-> accuracy]
         IN  /\ view' = <<"locate", latlng, latlng>>
             /\ layers' = RemovePrevious(layers, locationMarker, locationCircle)
                             \cup {marker, circle}
             /\ locationMarker' = marker
             /\ locationCircle' = circle
             /\ popup' = [content |-> "<b>You are here!</b>", latlng |-> latlng]
    /\ found' = found + 1
    /\ pendingLocate' = pendingLocate - 1
    /\ UNCHANGED <<locates, alerts, searches, layerControl, legend, builds>>
    /\ UNCHANGED <<load, kindergartenLayer, cityLayer, joinState, log, uncaught>>
    /\ UNCHANGED aloneVars

\* map.on('locationerror', function (e) { alert("Geolocation failed: " + e.message); })
LocationError ==
    /\ ~MicrotaskPending
    /\ pendingLocate > 0
    /\ alerts' = Append(alerts, "Geolocation failed: ")
    /\ pendingLocate' = pendingLocate - 1
    /\ UNCHANGED <<locationMarker, locationCircle, locates, found, searches>>
    /\ UNCHANGED <<load, kindergartenLayer, cityLayer, joinState, log, uncaught>>
    /\ UNCHANGED <<mapVars, aloneVars>>

----------------------------------------------------------------------------
(* findNearestKindergarten() *)

Guidance == "First, locate yourself by clicking Locate Me."

PreconditionBothMissing(marker, layer) == ~Truthy(marker) /\ ~Truthy(layer)

PreconditionOrEmpty(marker, layer) ==
    ~Truthy(marker) \/ ~Truthy(layer) \/ Len(layer.members) = 0

\* if (!locationMarker || !kindergartenLayer)
PreconditionMissing(marker, layer) == ~Truthy(marker) \/ ~Truthy(layer)

SwitchWithoutRemove(ls) == ls \cup {osmap}

\* osmap.addTo(map); positron.remove();
SwitchToStreetMap(ls) == (ls \cup {osmap}) \ {positron}

\* L.polyline([userLatLng, nearestLatLng], {...})
Polyline(userLatLng, nearestLatLng) ==
    [kind |-> "polyline", stamp |-> Cardinality(OfKind("polyline")) + 1,
     latlngs |-> <<userLatLng, nearestLatLng>>]

findNearestKindergarten ==
    /\ ~MicrotaskPending
    /\ Len(searches) < MaxNearest
    /\ IF PreconditionMissing(locationMarker, kindergartenLayer)
       THEN /\ alerts' = Append(alerts, Guidance)
            /\ searches' = Append(searches, "notice")
            /\ UNCHANGED <<layers, popup, view, uncaught>>
       ELSE IF ~Truthy(locationMarker) \/ ~Truthy(kindergartenLayer)
       THEN \* locationMarker.getLatLng() or kindergartenLayer.eachLayer on undefined
            /\ uncaught' = uncaught \cup {"TypeError"}
            /\ searches' = Append(searches, "threw")
            /\ UNCHANGED <<layers, popup, view, alerts>>
       ELSE LET userLatLng == locationMarker.latlng
                nearest == eachLayer(ScanStart, kindergartenLayer.members, 1, userLatLng).nearest
            IN  IF Truthy(nearest)
                THEN /\ layers' = SwitchToStreetMap(layers)
                                     \cup {Polyline(userLatLng, nearest.latlng)}
                     /\ popup' = [content |-> "The nearest kindergarten is here!",
                                  latlng |-> nearest.latlng]
                     /\ view' = <<"route", userLatLng, nearest.latlng>>
                     /\ searches' = Append(searches, "route")
                     /\ UNCHANGED <<alerts, uncaught>>
                ELSE /\ searches' = Append(searches, "nothing")
                     /\ UNCHANGED <<layers, popup, view, alerts, uncaught>>
    /\ UNCHANGED <<locationMarker, locationCircle, locates, pendingLocate, found>>
    /\ UNCHANGED <<layerControl, legend, builds>>
    /\ UNCHANGED <<load, kindergartenLayer, cityLayer, joinState, log>>
    /\ UNCHANGED aloneVars

----------------------------------------------------------------------------
(* The page once the script has run to its end: both fetches are in flight,
   positron is the base layer, and the locate and nearest controls are on
   the map. *)

InitPage ==
    /\ load = [X \in Loaders |-> Idle]
    /\ kindergartenLayer = Undefined
    /\ cityLayer = Undefined
    /\ joinState = "pending"
    /\ layers = {positron}
    /\ layerControl = Undefined
    /\ legend = Undefined
    /\ builds = 0
    /\ locationMarker = Undefined
    /\ locationCircle = Undefined
    /\ locates = 0
    /\ pendingLocate = 0
    /\ found = 0
    /\ alerts = <<>>
    /\ searches = <<>>
    /\ popup = Undefined
    /\ view = <<"center", 0, 0>>
    /\ log = {}
    /\ uncaught = {}

ScanIdle == [userLatLng |-> 0, markers |-> <<>>, i |-> 1, acc |-> ScanStart]

Init ==
    /\ InitPage
    /\ scan = ScanIdle
    /\ feature = Feature(0, PropsBare)
    /\ popupContent = Undefined

Next ==
    \/ \E X \in Loaders : FetchSettles(X)
    \/ \E X \in Loaders : CheckResponse(X)
    \/ \E X \in Loaders : JsonSettles(X)
    \/ \E X \in Loaders : BuildLayer(X)
    \/ \E X \in Loaders : CatchError(X)
    \/ Join
    \/ \E b \in {osmap, positron} : SelectBaseLayer(b)
    \/ \E X \in Loaders : ToggleOverlay(X)
    \/ LocateClick
    \/ LocationFound
    \/ LocationError
    \/ findNearestKindergarten

Spec == Init /\ [][Next]_vars

\* Promise reactions are microtasks: a queued one always runs.  Nothing makes
\* the network answer or the user click.
FairSpec ==
    /\ Spec
    /\ WF_vars(Join)
    /\ \A X \in Loaders :
         WF_vars(CheckResponse(X)) /\ WF_vars(BuildLayer(X)) /\ WF_vars(CatchError(X))

----------------------------------------------------------------------------
(* The eachLayer loop run alone, over every position and every short layer. *)

Coords == 0 .. MaxCoord

RECURSIVE SeqsUpTo(_, _)
SeqsUpTo(S, n) ==
    IF n = 0 THEN {<<>>}
    ELSE LET shorter == SeqsUpTo(S, n - 1)
         IN  shorter \cup {Append(q, x) : q \in shorter, x \in S}

MarkersAt(latlngs) ==
    [i \in 1 .. Len(latlngs) |-> [stamp |-> i, latlng |-> latlngs[i], popup |-> NoData]]

InitScan ==
    /\ InitPage
    /\ \E userLatLng \in Coords, latlngs \in SeqsUpTo(Coords, MaxScan) :
         scan = [userLatLng |-> userLatLng, markers |-> MarkersAt(latlngs), i |-> 1,
                 acc |-> ScanStart]
    /\ feature = Feature(0, PropsBare)
    /\ popupContent = Undefined

\* one call of the function handed to eachLayer
ScanLayer ==
    /\ scan.i <= Len(scan.markers)
    /\ scan' = [scan EXCEPT !.acc = ScanStep(scan.acc, scan.markers[scan.i], scan.userLatLng),
                            !.i = scan.i + 1]
    /\ UNCHANGED <<load, kindergartenLayer, cityLayer, joinState, log, uncaught>>
    /\ UNCHANGED <<mapVars, userVars, feature, popupContent>>

NextScan == ScanLayer

SpecScan == InitScan /\ [][NextScan]_vars

----------------------------------------------------------------------------
(* onEachFeature run alone, over every small property object. *)

PropKeys == {allowedKeys[i] : i \in 1 .. Len(allowedKeys)} \cup {"amenity"}

PropValues == {Null, Str(""), Str("Sonnenschein"), Num(0)}

PropObjects ==
    UNION {[K -> PropValues] : K \in {K \in SUBSET PropKeys : Cardinality(K) <= MaxProps}}

InitPopup ==
    /\ InitPage
    /\ scan = ScanIdle
    /\ \E properties \in PropObjects \cup {Null} : feature = Feature(0, properties)
    /\ popupContent = Undefined

Threw == [threw |-> "TypeError"]

\* L.geoJSON calls onEachFeature(feature, layer), which ends in layer.bindPopup(popupContent)
BindPopup ==
    /\ popupContent = Undefined
    /\ LET r == onEachFeature(feature)
       IN  popupContent' = IF r.threw THEN Threw ELSE r.popup
    /\ UNCHANGED <<load, kindergartenLayer, cityLayer, joinState, log, uncaught>>
    /\ UNCHANGED <<mapVars, userVars, scan, feature>>

NextPopup == BindPopup

SpecPopup == InitPopup /\ [][NextPopup]_vars

----------------------------------------------------------------------------
(* What the claims speak of. *)

\* the promise fetchX() returned is settled, and how the load went
Succeeded(X) == load[X].pc = "fulfilled" /\ load[X].error = "none"

Failed(X) ==
    load[X].pc = "fulfilled" /\ load[X].error \in {"network", "status", "parse", "render"}

BothSettled == \A X \in Loaders : Succeeded(X) \/ Failed(X)

ControlsBuilt == builds > 0 \/ Truthy(layerControl) \/ Truthy(legend)

\* a step that is one call of findNearestKindergarten
SearchStep == Len(searches') = Len(searches) + 1

RouteStep == SearchStep /\ searches'[Len(searches')] = "route"

Routes == OfKind("polyline")

RoutesDrawn == Cardinality({i \in DOMAIN searches : searches[i] = "route"})

C1_Safety ==
    /\ ControlsBuilt => BothSettled
    /\ builds <= 1
    /\ builds = 1 <=> (Truthy(layerControl) /\ Truthy(legend))

\* C1: the toggle control and the legend are built only when both loads have
\* settled (as success or failure), they are built at most once, and once both
\* loads have settled they are built.
C1_ControlsAfterBothLoads == [](C1_Safety) /\ (BothSettled ~> (builds = 1))

C1_Witness == builds = 1 /\ Succeeded("kg") /\ Failed("city")

C2_Controls ==
    /\ uncaught = {}
    /\ joinState # "rejected"
    /\ (BothSettled /\ ~MicrotaskPending) => builds = 1
    /\ builds = 1 =>
         /\ layerControl.baseMaps = {"OpenStreetMap", "CartoDB Positron"}
         /\ layerControl.overlays =
              (IF Succeeded("kg") THEN {"Kindergartens"} ELSE {})
              \cup (IF Succeeded("city") THEN {"City Boundary"} ELSE {})
         /\ legend.rows[1] = "<h4>Legend</h4>"
         /\ Len(legend.rows) = 1 + Cardinality({X \in Loaders : Succeeded(X)})
         /\ Succeeded("kg") <=> (Len(legend.rows) >= 2 /\ legend.rows[2] = " Kindergarten<br>")
         /\ Succeeded("city") <=>
              legend.rows[Len(legend.rows)] = " Salzburg City Boundary<br>"

\* C2: whatever the two loads' outcomes, nothing escapes as an exception; once
\* both have settled and the queued reactions have run, the controls are built;
\* the control lists both base maps and exactly the datasets that loaded, the
\* legend is its title and one row per dataset that loaded, and the join
\* attaches exactly the datasets that loaded.
C2_OnlyLoadedDatasetsAppear ==
    /\ C2_Controls
    /\ [][ /\ C2_Controls'
           /\ builds' # builds =>
                \A X \in Loaders : (Overlay(X) \in layers') <=> Succeeded(X) ]_vars

C2_Witness ==
    /\ builds = 1
    /\ load["kg"].error = "parse"
    /\ Succeeded("city")
    /\ Overlay("city") \in layers
    /\ Overlay("kg") \notin layers
    /\ layerControl.overlays = {"City Boundary"}

\* C3: at most one position marker and one accuracy circle are on the map;
\* once a locationfound event has been handled there is exactly one of each,
\* the pair the latest event created.
C3_OneMarkerOneCircle ==
    /\ Cardinality(OfKind("marker")) <= 1
    /\ Cardinality(OfKind("circle")) <= 1
    /\ found = 0 => OfKind("marker") = {} /\ OfKind("circle") = {}
    /\ found >= 1 =>
         /\ OfKind("marker") = {locationMarker}
         /\ OfKind("circle") = {locationCircle}
         /\ locationMarker.stamp = found
         /\ locationCircle.stamp = found
         /\ locationCircle.latlng = locationMarker.latlng

C3_Witness == found = 2 /\ pendingLocate = 0 /\ Cardinality(OfKind("marker")) = 1

\* C4: a call of findNearestKindergarten made while no locationfound event
\* has been handled, or while the kindergarten load is pending or has failed,
\* shows the guidance notice and changes nothing else.
C4_GuidanceOnly ==
    [][ (SearchStep /\ (found = 0 \/ ~Succeeded("kg"))) =>
          /\ alerts' = Append(alerts, Guidance)
          /\ UNCHANGED <<layers, popup, view, uncaught, layerControl, legend, builds,
                         locationMarker, locationCircle, kindergartenLayer, cityLayer,
                         log, load, joinState>> ]_vars

C4_Witness ==
    /\ searches = <<"notice">>
    /\ alerts = <<Guidance>>
    /\ found = 0
    /\ Succeeded("kg")
    /\ Routes = {}

ScanDone == scan.i > Len(scan.markers)

DistanceTo(j) == Distance(scan.userLatLng, scan.markers[j].latlng)

\* C5: when the loop has run over a non-empty layer, the marker it holds is at
\* the least distance from the position, and is the first marker at that
\* distance in iteration order.
C5_FirstOfTheNearest ==
    (ScanDone /\ Len(scan.markers) > 0) =>
        /\ Truthy(scan.acc.nearest)
        /\ \E j \in 1 .. Len(scan.markers) :
             /\ scan.acc.nearest = scan.markers[j]
             /\ scan.acc.minDistance = DistanceTo(j)
             /\ \A k \in 1 .. Len(scan.markers) : DistanceTo(k) >= DistanceTo(j)
             /\ \A k \in 1 .. (j - 1) : DistanceTo(k) > DistanceTo(j)

C5_Witness ==
    /\ ScanDone
    /\ Len(scan.markers) = 3
    /\ DistanceTo(1) > DistanceTo(2)
    /\ DistanceTo(2) = DistanceTo(3)
    /\ scan.acc.nearest.stamp = 2

KgLoadedEmpty == Succeeded("kg") /\ Len(load["kg"].value.members) = 0

\* C6: a call of findNearestKindergarten made with a position and a loaded
\* kindergarten layer that holds no marker changes nothing: no line, no
\* popup, no notice, no base layer switch, no viewport fit, no exception.
C6_EmptyLayerNoEffect ==
    [][ (SearchStep /\ found >= 1 /\ KgLoadedEmpty) =>
          UNCHANGED <<layers, popup, view, alerts, uncaught, layerControl, legend, builds,
                      locationMarker, locationCircle, kindergartenLayer, cityLayer,
                      log, load, joinState>> ]_vars

C6_Witness ==
    /\ searches = <<"nothing">>
    /\ found >= 1
    /\ KgLoadedEmpty
    /\ alerts = <<>>
    /\ positron \in layers

Qualifying ==
    {k \in DOMAIN feature.properties :
        /\ k \in {"name", "phone", "email", "addr:housenumber", "addr:street",
                  "operator:type", "opening_hours", "website"}
        /\ feature.properties[k] # Null
        /\ feature.properties[k] # Str("")}

\* C7: the popup bound to a feature holds a row for a key exactly when the key
\* is in the allow-list and the feature's value for it is present, not null and
\* not empty; the rows are in allow-list order and carry the values; with no
\* such key the popup is the "no data" notice and not a table.
C7_PopupRows ==
    (popupContent # Undefined /\ popupContent # Threw) =>
        IF Qualifying = {}
        THEN popupContent = NoData
        ELSE /\ popupContent # NoData
             /\ [i \in 1 .. Len(popupContent.rows) |-> popupContent.rows[i].key]
                  = SelectSeq(allowedKeys, LAMBDA k : k \in Qualifying)
             /\ \A i \in 1 .. Len(popupContent.rows) :
                  popupContent.rows[i].value = feature.properties[popupContent.rows[i].key]

C7_Witness ==
    /\ popupContent # Undefined
    /\ popupContent # Threw
    /\ popupContent # NoData
    /\ Len(popupContent.rows) = 2
    /\ \E k \in DOMAIN feature.properties : feature.properties[k] = Str("")

OneBaseLayer == Cardinality(OfKind("tile")) = 1

\* C8: exactly one base layer is on the map in every state, and a call of
\* findNearestKindergarten that draws a route leaves the street map as that
\* base layer, whichever was on the map before.
C8_OneBaseLayer ==
    /\ OneBaseLayer
    /\ [][ OneBaseLayer' /\ (RouteStep => OfKind("tile")' = {osmap}) ]_vars

C8_Witness ==
    /\ searches = <<"route">>
    /\ OfKind("tile") = {osmap}
    /\ layerControl = Undefined

\* C9 as stated: whenever a route is on the map the startup join has run (and
\* so has attached the kindergarten layer).
C9_RouteOnlyAfterJoin ==
    Routes # {} => (joinState = "fulfilled" /\ builds = 1)

\* C9 as amended: whenever a route is on the map the kindergarten load has
\* succeeded and the global holds its layer; every route ends at a marker of
\* that layer.  The join need not have run.
C9_RouteOnlyAfterKindergartenLoad ==
    Routes # {} =>
        /\ Succeeded("kg")
        /\ kindergartenLayer = load["kg"].value
        /\ \A r \in Routes :
             \E j \in 1 .. Len(kindergartenLayer.members) :
                r.latlngs[2] = kindergartenLayer.members[j].latlng

C9_Witness ==
    /\ Routes # {}
    /\ load["city"].pc = "fetch"
    /\ joinState = "pending"
    /\ Overlay("kg") \notin layers
    /\ layerControl = Undefined

\* C10: route lines are never removed or changed: the map holds as many as
\* route-drawing calls were made, and every step keeps every line it found,
\* also a locationfound step that replaces the marker.
C10_RoutesKept ==
    /\ Cardinality(Routes) = RoutesDrawn
    /\ [][ /\ Cardinality(Routes') = RoutesDrawn'
           /\ Routes \subseteq Routes' ]_vars

C10_Witness ==
    /\ found = 2
    /\ \E r \in Routes : r.latlngs[1] # locationMarker.latlng
    /\ Cardinality(Routes) = 1

====
